---- MODULE Spec2Model ----
(***************************************************************************)
(* Model of vendor/github.com/osbuild/images/pkg/osbuild/device.go: the    *)
(* compilation of a partition table (a tree of disk entities) into device  *)
(* descriptors, creation stages, finish stages and mounts.                 *)
(*                                                                         *)
(* Go strings that the code takes apart (mountpoints, device names, UUIDs) *)
(* are sequences of one-character strings, compared by their byte values;  *)
(* strings the code only copies (types, passphrases, the file name) are    *)
(* TLA+ strings.                                                           *)
(***************************************************************************)
EXTENDS Integers, Sequences, FiniteSets, TLC

VARIABLES
  pt,               \* the partition table the running call was given
  call,             \* the function that is running, "" before the call
  visited,          \* positions of the entities the traversal has handed to the callback
  stages,           \* stages of GenDeviceCreationStages / GenDeviceFinishStages
  removeKeyStages,  \* removeKeyStages of GenDeviceFinishStages
  devices,          \* devices of genMountsDevicesFromPt
  mounts,           \* mounts of genMountsDevicesFromPt
  fsRootMntName,    \* fsRootMntName of genMountsDevicesFromPt
  chain,            \* <<the last getDevices call>>: where its path ends, what it returned
  ret,              \* <<what the call returned>>, <<>> while it runs
  path,             \* pathEscape: the argument
  other,            \* pathEscape: a second argument, escaped alongside
  escaped           \* pathEscape: the two results, <<>> before the call

vars == <<pt, call, visited, stages, removeKeyStages, devices, mounts,
          fsRootMntName, chain, ret, path, other, escaped>>

None == "none"

(***************************************************************************)
(* Bounds of the model.                                                    *)
(***************************************************************************)
MaxPathLen == 3   \* longest argument of pathEscape
MaxEntities == 7  \* most entities of a partition table, the table itself not counted

(***************************************************************************)
(* Strings.                                                                *)
(***************************************************************************)
\* the byte of a character, for Go's < on strings and for %x
Byte(c) ==
  CASE c = "-" -> 45
    [] c = "/" -> 47
    [] c = "0" -> 48
    [] c = "1" -> 49
    [] c = "2" -> 50
    [] c = "3" -> 51
    [] c = "4" -> 52
    [] c = "5" -> 53
    [] c = "6" -> 54
    [] c = "7" -> 55
    [] c = "8" -> 56
    [] c = "9" -> 57
    [] c = "B" -> 66
    [] c = "\\" -> 92
    [] c = "a" -> 97
    [] c = "b" -> 98
    [] c = "c" -> 99
    [] c = "d" -> 100
    [] c = "e" -> 101
    [] c = "f" -> 102
    [] c = "g" -> 103
    [] c = "i" -> 105
    [] c = "k" -> 107
    [] c = "l" -> 108
    [] c = "s" -> 115
    [] c = "u" -> 117
    [] c = "v" -> 118
    [] c = "x" -> 120

Digits == <<"0", "1", "2", "3", "4", "5", "6", "7", "8", "9",
            "a", "b", "c", "d", "e", "f">>

\* fmt's %x and %d of a non-negative integer
RECURSIVE FormatInt(_, _)
FormatInt(n, base) ==
  IF n < base THEN <<Digits[n + 1]>>
  ELSE FormatInt(n \div base, base) \o <<Digits[(n % base) + 1]>>

\* Go's s < t: byte-wise lexicographic order
RECURSIVE StrLess(_, _)
StrLess(s, t) ==
  IF t = <<>> THEN FALSE
  ELSE IF s = <<>> THEN TRUE
  ELSE IF Head(s) # Head(t) THEN Byte(Head(s)) < Byte(Head(t))
  ELSE StrLess(Tail(s), Tail(t))

\* strings.ReplaceAll(s, char, rep) for a one-character char
RECURSIVE ReplaceAll(_, _, _)
ReplaceAll(s, char, rep) ==
  IF s = <<>> THEN <<>>
  ELSE (IF Head(s) = char THEN rep ELSE <<Head(s)>>) \o ReplaceAll(Tail(s), char, rep)

RECURSIVE TrimLeft(_, _)
TrimLeft(s, cut) ==
  IF s # <<>> /\ Head(s) = cut THEN TrimLeft(Tail(s), cut) ELSE s

RECURSIVE TrimRight(_, _)
TrimRight(s, cut) ==
  IF s # <<>> /\ s[Len(s)] = cut THEN TrimRight(SubSeq(s, 1, Len(s) - 1), cut) ELSE s

\* strings.Trim(s, cut) for a one-character cutset
Trim(s, cut) == TrimRight(TrimLeft(s, cut), cut)

(***************************************************************************)
(* pathEscape.                                                             *)
(***************************************************************************)
escapeChars(s, char) ==
  ReplaceAll(s, char, <<"\\", "x">> \o FormatInt(Byte(char), 16))

\* a slip that forgets to escape the dashes of the path
pathEscapeKeepDash(p) ==
  IF Len(p) = 0 \/ p = <<"/">> THEN <<"-">>
  ELSE ReplaceAll(escapeChars(Trim(p, "/"), "\\"), "/", <<"-">>)

pathEscape(p) ==
  IF Len(p) = 0 \/ p = <<"/">> THEN <<"-">>
  ELSE ReplaceAll(escapeChars(escapeChars(Trim(p, "/"), "\\"), "-"), "/", <<"-">>)

(***************************************************************************)
(* The disk entities (package disk), as far as device.go reads them.       *)
(***************************************************************************)
Filesystem(type, mountpoint) ==
  [kind |-> "Filesystem", Type |-> type, Mountpoint |-> mountpoint]

LUKSContainer(uuid, clevis, payload) ==
  [kind |-> "LUKSContainer", UUID |-> uuid, Passphrase |-> "osbuild",
   Cipher |-> "cipher_null", Label |-> "crypt_root", Subsystem |-> "", SectorSize |-> 0,
   PBKDF |-> [Iterations |-> 4, Memory |-> 32, Parallelism |-> 1],
   Clevis |-> clevis, Payload |-> payload]

\* LUKSContainer.Clevis: a nil pointer, or a ClevisBind
NoClevis ==
  [nil |-> TRUE, Pin |-> "", Policy |-> "", RemovePassphrase |-> FALSE]
ClevisBind(removePassphrase) ==
  [nil |-> FALSE, Pin |-> "null", Policy |-> "{}", RemovePassphrase |-> removePassphrase]

LVMLogicalVolume(name, size, payload) ==
  [kind |-> "LVMLogicalVolume", Name |-> name, Size |-> size, Payload |-> payload]

LVMVolumeGroup(name, lvs) ==
  [kind |-> "LVMVolumeGroup", Name |-> name, LogicalVolumes |-> lvs]

Partition(start, size, payload) ==
  [kind |-> "Partition", Start |-> start, Size |-> size, Payload |-> payload]

PartitionTable(partitions) ==
  [kind |-> "PartitionTable", SectorSize |-> 512, Partitions |-> partitions]

\* pt.BytesToSectors
BytesToSectors(table, bytes) == bytes \div table.SectorSize

\* Container.GetChild over Container.GetItemCount
Children(e) ==
  CASE e.kind = "PartitionTable" -> e.Partitions
    [] e.kind = "LVMVolumeGroup" -> e.LogicalVolumes
    [] e.kind \in {"Partition", "LUKSContainer", "LVMLogicalVolume"} -> <<e.Payload>>
    [] OTHER -> <<>>

\* an entity is named by its position: the child indices from the table down
RECURSIVE EntityAt(_, _)
EntityAt(e, pos) ==
  IF pos = <<>> THEN e ELSE EntityAt(Children(e)[Head(pos)], Tail(pos))

\* the path []Entity the traversal hands to a callback: the table first, the entity last
PathTo(table, pos) ==
  [i \in 1..(Len(pos) + 1) |-> EntityAt(table, SubSeq(pos, 1, i - 1))]

\* PartitionTable.ForEachEntity: every entity with its position, depth first, an
\* entity before its children and the children in their order
RECURSIVE Walk(_, _)
RECURSIVE WalkChildren(_, _, _)
Walk(e, pos) == <<pos>> \o WalkChildren(e, pos, 1)
WalkChildren(e, pos, i) ==
  IF i > Len(Children(e)) THEN <<>>
  ELSE Walk(Children(e)[i], Append(pos, i)) \o WalkChildren(e, pos, i + 1)

ForEachEntity(table) == Walk(table, <<>>)

\* the positions of the entities of the given kinds, in that order
OfKinds(table, kinds) ==
  SelectSeq(ForEachEntity(table), LAMBDA pos : EntityAt(table, pos).kind \in kinds)

\* PartitionTable.ForEachMountable: the same walk, over the Mountables
ForEachMountable(table) == OfKinds(table, {"Filesystem"})

Range(seq) == {seq[i] : i \in DOMAIN seq}

(***************************************************************************)
(* Devices, stages and mounts.                                             *)
(***************************************************************************)
Filename == "disk.img"
NoParent == <<>>
DeviceKey == <<"d", "e", "v", "i", "c", "e">>

\* type Device
Device(type, parent, options) ==
  [Type |-> type, Parent |-> parent, Options |-> options]

NewLoopbackDevice(options) == Device("org.osbuild.loopback", NoParent, options)
NewLUKS2Device(parent, options) == Device("org.osbuild.luks2", parent, options)
NewLVM2LVDevice(parent, options) == Device("org.osbuild.lvm2.lv", parent, options)

\* type Stage, with the devices the constructor was given
Stage(type, options, devs) ==
  [Type |-> type, Options |-> options, Devices |-> devs]

\* type Mount, as NewXfsMount and its siblings fill it
Mount(type, name, source, target) ==
  [Name |-> name, Type |-> type, Source |-> source, Target |-> target]

\* a Go map: m[k] = v and delete(m, k)
MapPut(m, k, v) ==
  [x \in DOMAIN m \cup {k} |-> IF x = k THEN v ELSE m[x]]
MapDelete(m, k) ==
  [x \in DOMAIN m \ {k} |-> m[x]]
EmptyMap == [x \in {} |-> None]

\* deviceName; an entity of no case here panics, which no payload of the
\* partition tables below is
deviceName(p) ==
  CASE p.kind = "Filesystem" -> pathEscape(p.Mountpoint)
    [] p.kind = "LUKSContainer" -> <<"l", "u", "k", "s", "-">> \o SubSeq(p.UUID, 1, 4)
    [] p.kind = "LVMVolumeGroup" -> p.Name
    [] p.kind = "LVMLogicalVolume" -> p.Name

\* the loop of getDevices from element i on; acc is [table, do, parent].
\* A Partition before any PartitionTable panics; every path starts at the table.
RECURSIVE getDevicesFrom(_, _, _, _, _)
getDevicesFrom(elems, i, acc, filename, lockLoopback) ==
  IF i > Len(elems) THEN acc
  ELSE
    LET e == elems[i]
        next ==
          CASE e.kind = "PartitionTable" -> [acc EXCEPT !.table = e]
            [] e.kind = "Partition" ->
                 LET lbopt == [Filename |-> filename,
                               Start |-> BytesToSectors(acc.table, e.Start),
                               Size |-> BytesToSectors(acc.table, e.Size),
                               Lock |-> lockLoopback]
                     name == deviceName(e.Payload)
                 IN  [acc EXCEPT !.do = MapPut(acc.do, name, NewLoopbackDevice(lbopt)),
                                 !.parent = name]
            [] e.kind = "LUKSContainer" ->
                 LET lo == [Passphrase |-> e.Passphrase]
                     name == deviceName(e.Payload)
                 IN  [acc EXCEPT !.do = MapPut(acc.do, name, NewLUKS2Device(acc.parent, lo)),
                                 !.parent = name]
            [] e.kind = "LVMLogicalVolume" ->
                 LET lo == [Volume |-> e.Name]
                     name == deviceName(e.Payload)
                 IN  [acc EXCEPT !.do = MapPut(acc.do, name, NewLVM2LVDevice(acc.parent, lo)),
                                 !.parent = name]
            [] OTHER -> acc
    IN  getDevicesFrom(elems, i + 1, next, filename, lockLoopback)

\* getDevices: the map and the name of the last device
getDevices(elems, filename, lockLoopback) ==
  LET acc == getDevicesFrom(elems, 1, [table |-> None, do |-> EmptyMap, parent |-> NoParent],
                            filename, lockLoopback)
  IN  [devs |-> acc.do, last |-> acc.parent]

(***************************************************************************)
(* GenDeviceCreationStages and GenDeviceFinishStages.                      *)
(***************************************************************************)
\* "rename the last device to device": the three statements both callbacks run
\* on the map of getDevices (a missing key reads as the zero Device)
RenameLastToDevice(got) ==
  LET lastDevice == IF got.last \in DOMAIN got.devs THEN got.devs[got.last]
                    ELSE Device("", NoParent, EmptyMap)
  IN  MapPut(MapDelete(got.devs, got.last), DeviceKey, lastDevice)

NewLUKS2CreateStage(ent, devs) ==
  Stage("org.osbuild.luks2.format",
        [UUID |-> ent.UUID, Passphrase |-> ent.Passphrase, Cipher |-> ent.Cipher,
         Label |-> ent.Label, Subsystem |-> ent.Subsystem, SectorSize |-> ent.SectorSize,
         PBKDF |-> [Method |-> "argon2id", Iterations |-> ent.PBKDF.Iterations,
                    Memory |-> ent.PBKDF.Memory, Parallelism |-> ent.PBKDF.Parallelism]],
        devs)

NewClevisLuksBindStage(ent, devs) ==
  Stage("org.osbuild.clevis.luks-bind",
        [Passphrase |-> ent.Passphrase, Pin |-> ent.Clevis.Pin, Policy |-> ent.Clevis.Policy],
        devs)

NewLVM2CreateStage(volumes, devs) ==
  Stage("org.osbuild.lvm2.create", [Volumes |-> volumes], devs)

NewLUKS2RemoveKeyStage(ent, devs) ==
  Stage("org.osbuild.luks2.remove-key", [Passphrase |-> ent.Passphrase], devs)

NewLVM2MetadataStage(ent, devs) ==
  Stage("org.osbuild.lvm2.metadata", [VGName |-> ent.Name], devs)

\* the path without its last element: path[:len(path)-1]
WithoutLast(elems) == SubSeq(elems, 1, Len(elems) - 1)

\* a slip that binds only the containers whose Clevis removes the passphrase
CreationGenStagesBindOnRemove(e, elems, stgs) ==
  CASE e.kind = "LUKSContainer" ->
         LET stageDevices == RenameLastToDevice(getDevices(WithoutLast(elems), Filename, TRUE))
             stage == NewLUKS2CreateStage(e, stageDevices)
         IN  IF ~e.Clevis.nil /\ e.Clevis.RemovePassphrase
             THEN stgs \o <<stage, NewClevisLuksBindStage(e, stageDevices)>>
             ELSE stgs \o <<stage>>
    [] e.kind = "LVMVolumeGroup" ->
         LET stageDevices == RenameLastToDevice(getDevices(WithoutLast(elems), Filename, TRUE))
             volumes == [idx \in DOMAIN e.LogicalVolumes |->
                           [Name |-> e.LogicalVolumes[idx].Name,
                            Size |-> FormatInt(e.LogicalVolumes[idx].Size, 10) \o <<"B">>]]
         IN  stgs \o <<NewLVM2CreateStage(volumes, stageDevices)>>
    [] OTHER -> stgs

\* genStages of GenDeviceCreationStages: the stages after the callback ran on e
CreationGenStages(e, elems, stgs) ==
  CASE e.kind = "LUKSContainer" ->
         LET stageDevices == RenameLastToDevice(getDevices(WithoutLast(elems), Filename, TRUE))
             stage == NewLUKS2CreateStage(e, stageDevices)
         IN  IF ~e.Clevis.nil
             THEN stgs \o <<stage, NewClevisLuksBindStage(e, stageDevices)>>
             ELSE stgs \o <<stage>>
    [] e.kind = "LVMVolumeGroup" ->
         LET stageDevices == RenameLastToDevice(getDevices(WithoutLast(elems), Filename, TRUE))
             volumes == [idx \in DOMAIN e.LogicalVolumes |->
                           [Name |-> e.LogicalVolumes[idx].Name,
                            Size |-> FormatInt(e.LogicalVolumes[idx].Size, 10) \o <<"B">>]]
         IN  stgs \o <<NewLVM2CreateStage(volumes, stageDevices)>>
    [] OTHER -> stgs

\* a slip that appends the remove-key stage where the container is visited
FinishGenStagesUnbuffered(e, elems, st) ==
  CASE e.kind = "LUKSContainer" ->
         LET stageDevices == RenameLastToDevice(getDevices(WithoutLast(elems), Filename, TRUE))
         IN  IF ~e.Clevis.nil /\ e.Clevis.RemovePassphrase
             THEN [st EXCEPT !.stages = @ \o <<NewLUKS2RemoveKeyStage(e, stageDevices)>>]
             ELSE st
    [] e.kind = "LVMVolumeGroup" ->
         LET stageDevices == RenameLastToDevice(getDevices(WithoutLast(elems), Filename, TRUE))
         IN  [st EXCEPT !.stages = @ \o <<NewLVM2MetadataStage(e, stageDevices)>>]
    [] OTHER -> st

\* genStages of GenDeviceFinishStages: st is [stages, removeKeyStages]
FinishGenStages(e, elems, st) ==
  CASE e.kind = "LUKSContainer" ->
         LET stageDevices == RenameLastToDevice(getDevices(WithoutLast(elems), Filename, TRUE))
         IN  IF ~e.Clevis.nil /\ e.Clevis.RemovePassphrase
             THEN [st EXCEPT !.removeKeyStages = @ \o <<NewLUKS2RemoveKeyStage(e, stageDevices)>>]
             ELSE st
    [] e.kind = "LVMVolumeGroup" ->
         LET stageDevices == RenameLastToDevice(getDevices(WithoutLast(elems), Filename, TRUE))
         IN  [st EXCEPT !.stages = @ \o <<NewLVM2MetadataStage(e, stageDevices)>>]
    [] OTHER -> st

\* the return of GenDeviceFinishStages: append(stages, removeKeyStages...)
FinishResult(st) == st.stages \o st.removeKeyStages

(***************************************************************************)
(* genMountsDevicesFromPt.                                                 *)
(***************************************************************************)
\* the errors, by their message and what the message carries
UnknownFsType(t) == [msg |-> "unknown fs type", fstype |-> t, device |-> <<>>]
NameCollision(devName) ==
  [msg |-> "the device name has been generated for two different devices",
   fstype |-> "", device |-> devName]
NoRootMount == [msg |-> "no mount found for the filesystem root", fstype |-> "", device |-> <<>>]

\* the four results of genMountsDevicesFromPt. A nil slice, map or error is <<>>,
\* one that is there is <<value>>.
Failed(err) == [root |-> <<>>, mounts |-> <<>>, devices |-> <<>>, err |-> <<err>>]
Succeeded(root, ms, devs) == [root |-> root, mounts |-> <<ms>>, devices |-> <<devs>>, err |-> <<>>]

\* a slip whose default case mounts the filesystem all the same
NewMountForAnyType(t, name, mountpoint) ==
  CASE t = "xfs" -> <<Mount("org.osbuild.xfs", name, name, mountpoint)>>
    [] t = "vfat" -> <<Mount("org.osbuild.fat", name, name, mountpoint)>>
    [] t = "ext4" -> <<Mount("org.osbuild.ext4", name, name, mountpoint)>>
    [] t = "btrfs" -> <<Mount("org.osbuild.btrfs", name, name, mountpoint)>>
    [] OTHER -> <<Mount("org.osbuild." \o t, name, name, mountpoint)>>

\* the switch on the filesystem type: <<the mount>>, or <<>> in the default case
NewMountFor(t, name, mountpoint) ==
  CASE t = "xfs" -> <<Mount("org.osbuild.xfs", name, name, mountpoint)>>
    [] t = "vfat" -> <<Mount("org.osbuild.fat", name, name, mountpoint)>>
    [] t = "ext4" -> <<Mount("org.osbuild.ext4", name, name, mountpoint)>>
    [] t = "btrfs" -> <<Mount("org.osbuild.btrfs", name, name, mountpoint)>>
    [] OTHER -> <<>>

\* a slip that overwrites a device of the same name without comparing
ConflictsIgnored(devs, stageDevices) == {}

\* the names of stageDevices that the loop over them refuses
Conflicts(devs, stageDevices) ==
  {devName \in DOMAIN stageDevices :
     devName \in DOMAIN devs /\ devs[devName] # stageDevices[devName]}

\* devices after devices[devName] = stageDevices[devName] for the given names
MergeDevices(devs, stageDevices, names) ==
  [x \in DOMAIN devs \cup names |-> IF x \in names THEN stageDevices[x] ELSE devs[x]]

\* genMounts: the callback on Mountable mnt with path elems, from the locals
\* st = [fsRootMntName, mounts, devices]. The outcomes are the locals after it and
\* the error it returns. Go ranges over stageDevices in no fixed order: when names
\* collide, any of them is reported, after any of the others were copied.
genMounts(st, mnt, elems) ==
  LET got == getDevices(elems, Filename, FALSE)
      name == got.last
      mountpoint == mnt.Mountpoint
      root == IF mountpoint = <<"/">> THEN name ELSE st.fsRootMntName
      mount == NewMountFor(mnt.Type, name, mountpoint)
      clash == Conflicts(st.devices, got.devs)
  IN  IF mount = <<>>
      THEN {[fsRootMntName |-> root, mounts |-> st.mounts, devices |-> st.devices,
             err |-> <<UnknownFsType(mnt.Type)>>]}
      ELSE IF clash # {}
      THEN {[fsRootMntName |-> root, mounts |-> Append(st.mounts, mount[1]),
             devices |-> MergeDevices(st.devices, got.devs, copied),
             err |-> <<NameCollision(devName)>>] :
              devName \in clash, copied \in SUBSET (DOMAIN got.devs \ clash)}
      ELSE {[fsRootMntName |-> root, mounts |-> Append(st.mounts, mount[1]),
             devices |-> MergeDevices(st.devices, got.devs, DOMAIN got.devs),
             err |-> <<>>]}

\* the permutations of 1..n
PermutationsOf(n) ==
  {f \in [1..n -> 1..n] : \A i, j \in 1..n : f[i] = f[j] => i = j}

\* a slip that compares the targets the wrong way round
SortMountsDescending(ms) ==
  {[i \in DOMAIN ms |-> ms[f[i]]] :
     f \in {g \in PermutationsOf(Len(ms)) :
              \A i, j \in DOMAIN ms : i < j => ~StrLess(ms[g[i]].Target, ms[g[j]].Target)}}

\* a slip that leaves the mounts in the order the leaves were visited in
SortMountsSkipped(ms) == {ms}

\* sort.Slice(mounts, Target <): not stable, so any order of the mounts in
\* which no mount comes before one of a smaller target
SortMounts(ms) ==
  {[i \in DOMAIN ms |-> ms[f[i]]] :
     f \in {g \in PermutationsOf(Len(ms)) :
              \A i, j \in DOMAIN ms : i < j => ~StrLess(ms[g[j]].Target, ms[g[i]].Target)}}

\* a slip that returns without testing for the root mount
RootCheckSkipped(st, sorted) ==
  Succeeded(st.fsRootMntName, sorted, st.devices)

\* the test for the root mount and the return, the mounts sorted
RootCheck(st, sorted) ==
  IF st.fsRootMntName = <<>> THEN Failed(NoRootMount)
  ELSE Succeeded(st.fsRootMntName, sorted, st.devices)

\* the statements after ForEachMountable returned nil: the possible results
MountsResult(st) ==
  {RootCheck(st, sorted) : sorted \in SortMounts(st.mounts)}

\* the possible results of the call when ForEachMountable visits the leaves in
\* the given order, from the i-th on
RECURSIVE MountsFrom(_, _, _, _)
MountsFrom(table, order, i, st) ==
  IF i > Len(order) THEN MountsResult(st)
  ELSE UNION {IF out.err # <<>> THEN {Failed(out.err[1])}
              ELSE MountsFrom(table, order, i + 1,
                              [fsRootMntName |-> out.fsRootMntName, mounts |-> out.mounts,
                               devices |-> out.devices]) :
                out \in genMounts(st, EntityAt(table, order[i]), PathTo(table, order[i]))}

NoMounts == [fsRootMntName |-> <<>>, mounts |-> <<>>, devices |-> EmptyMap]

genMountsDevicesFromPt(table, order) == MountsFrom(table, order, 1, NoMounts)

(***************************************************************************)
(* The partition tables the calls are given.  A table is well formed:      *)
(* partitions do not overlap, no two filesystems share a mountpoint, no    *)
(* two containers a UUID, no two volume groups a name, and the logical     *)
(* volumes of a group have different names.                                *)
(***************************************************************************)
Mountpoints == {<<"/">>, <<"/", "a">>, <<"/", "a", "/", "b">>}
UUIDs == {<<"a", "b", "c", "d", "1", "2", "3", "4">>, <<"e", "f", "0", "1", "5", "6", "7", "8">>}

\* the i-th logical volume of its group and the i-th partition of the table
NthVolume(i, payload) ==
  LVMLogicalVolume(<<"l", "v">> \o FormatInt(i, 10), i * 1048576, payload)
NthPartition(i, payload) ==
  Partition(i * 1048576, 1048576, payload)

\* The tables are built by size and by the names they use. A key K names the
\* mountpoints K.mp, the UUIDs K.uuid and the group names K.vg. tbl.P[n][K],
\* tbl.V[n][K] and tbl.S[n][K] are the payloads, the sequences of logical volumes
\* and the sequences of partitions of exactly n entities that use each name of
\* K once; cfg gives the filesystem types, Clevis settings and group names to
\* draw from.
Keys(cfg) == [mp : SUBSET Mountpoints, uuid : SUBSET UUIDs, vg : SUBSET cfg.VGNames]
SubKeys(K) == [mp : SUBSET K.mp \ {{}}, uuid : SUBSET K.uuid, vg : SUBSET K.vg]
KeyMinus(K, B) == [mp |-> K.mp \ B.mp, uuid |-> K.uuid \ B.uuid, vg |-> K.vg \ B.vg]
NoKey == [mp |-> {}, uuid |-> {}, vg |-> {}]

Extend(seqs, P, n, K, volumes) ==
  UNION {UNION {{Append(rest, IF volumes THEN NthVolume(Len(rest) + 1, p)
                              ELSE NthPartition(Len(rest) + 1, p)) :
                   rest \in (IF n = k THEN (IF K = B THEN {<<>>} ELSE {})
                             ELSE seqs[n - k][KeyMinus(K, B)]),
                   p \in P[k - 1][B]} :
                B \in SubKeys(K)} : k \in 2..n}

PayloadsOfSize(tbl, n, K, cfg) ==
  IF n = 1
  THEN {Filesystem(t, m) : t \in cfg.FSTypes,
                           m \in {x \in K.mp : K = [NoKey EXCEPT !.mp = {x}]}}
  ELSE UNION {{LUKSContainer(u, c, p) :
                 c \in cfg.Clevis, p \in tbl.P[n - 1][[K EXCEPT !.uuid = @ \ {u}]]} :
              u \in K.uuid}
       \cup UNION {{LVMVolumeGroup(g, lvs) : lvs \in tbl.V[n - 1][[K EXCEPT !.vg = @ \ {g}]]} :
                   g \in K.vg}

RECURSIVE BuildTables(_, _, _)
BuildTables(tbl, n, cfg) ==
  IF n > MaxEntities THEN tbl
  ELSE BuildTables(
         [P |-> Append(tbl.P, [K \in Keys(cfg) |-> PayloadsOfSize(tbl, n, K, cfg)]),
          V |-> Append(tbl.V, [K \in Keys(cfg) |-> Extend(tbl.V, tbl.P, n, K, TRUE)]),
          S |-> Append(tbl.S, [K \in Keys(cfg) |-> Extend(tbl.S, tbl.P, n, K, FALSE)])],
         n + 1, cfg)

PartitionTables(cfg) ==
  LET tbl == BuildTables([P |-> <<>>, V |-> <<>>, S |-> <<>>], 1, cfg)
  IN  {PartitionTable(parts) :
         parts \in UNION {tbl.S[n][K] : n \in 2..MaxEntities, K \in Keys(cfg)}}

(***************************************************************************)
(* The calls. A traversal hands the entities to the callback one at a time; *)
(* the order in which it does so is left open.                              *)
(***************************************************************************)
MountCfg ==
  [FSTypes |-> {"xfs", "ext4", "zfs"}, Clevis |-> {NoClevis},
   VGNames |-> {<<"a">>, <<"v", "g">>}]
StageCfg ==
  [FSTypes |-> {"xfs"}, Clevis |-> {NoClevis, ClevisBind(FALSE), ClevisBind(TRUE)},
   VGNames |-> {DeviceKey, <<"v", "g">>}]

Idle ==
  /\ visited = <<>>
  /\ stages = <<>>
  /\ removeKeyStages = <<>>
  /\ devices = EmptyMap
  /\ mounts = <<>>
  /\ fsRootMntName = <<>>
  /\ chain = <<>>
  /\ ret = <<>>

\* the entities a callback has not been handed yet
Unvisited(kinds) == Range(OfKinds(pt, kinds)) \ Range(visited)

StageKinds == {"LUKSContainer", "LVMVolumeGroup"}

\* ---- GenDeviceCreationStages and GenDeviceFinishStages ----
\* For an entity that is neither a LUKS container nor a volume group the
\* callbacks return at once and change nothing: those visits are left out.
InitStages ==
  /\ pt \in PartitionTables(StageCfg)
  /\ call \in {"GenDeviceCreationStages", "GenDeviceFinishStages"}
  /\ Idle
  /\ path = <<>> /\ other = <<>> /\ escaped = <<>>

CreationVisit(pos) ==
  /\ call = "GenDeviceCreationStages" /\ ret = <<>>
  /\ pos \in Unvisited(StageKinds)
  /\ LET elems == PathTo(pt, pos)
     IN  /\ stages' = CreationGenStages(EntityAt(pt, pos), elems, stages)
         /\ chain' = <<[upto |-> WithoutLast(pos),
                        got |-> getDevices(WithoutLast(elems), Filename, TRUE)]>>
  /\ visited' = Append(visited, pos)
  /\ UNCHANGED <<pt, call, removeKeyStages, devices, mounts, fsRootMntName, ret,
                 path, other, escaped>>

CreationReturn ==
  /\ call = "GenDeviceCreationStages" /\ ret = <<>>
  /\ Unvisited(StageKinds) = {}
  /\ ret' = <<stages>>
  /\ UNCHANGED <<pt, call, visited, stages, removeKeyStages, devices, mounts,
                 fsRootMntName, chain, path, other, escaped>>

FinishVisit(pos) ==
  /\ call = "GenDeviceFinishStages" /\ ret = <<>>
  /\ pos \in Unvisited(StageKinds)
  /\ LET elems == PathTo(pt, pos)
         st == FinishGenStages(EntityAt(pt, pos), elems,
                               [stages |-> stages, removeKeyStages |-> removeKeyStages])
     IN  /\ stages' = st.stages
         /\ removeKeyStages' = st.removeKeyStages
         /\ chain' = <<[upto |-> WithoutLast(pos),
                        got |-> getDevices(WithoutLast(elems), Filename, TRUE)]>>
  /\ visited' = Append(visited, pos)
  /\ UNCHANGED <<pt, call, devices, mounts, fsRootMntName, ret, path, other, escaped>>

FinishReturn ==
  /\ call = "GenDeviceFinishStages" /\ ret = <<>>
  /\ Unvisited(StageKinds) = {}
  /\ stages' = FinishResult([stages |-> stages, removeKeyStages |-> removeKeyStages])
  /\ ret' = <<stages'>>
  /\ UNCHANGED <<pt, call, visited, removeKeyStages, devices, mounts, fsRootMntName,
                 chain, path, other, escaped>>

NextStages ==
  \/ \E pos \in Unvisited(StageKinds) : CreationVisit(pos)
  \/ CreationReturn
  \/ \E pos \in Unvisited(StageKinds) : FinishVisit(pos)
  \/ FinishReturn

SpecStages == InitStages /\ [][NextStages]_vars

\* ---- genMountsDevicesFromPt ----
InitMounts ==
  /\ pt \in PartitionTables(MountCfg)
  /\ call = "genMountsDevicesFromPt"
  /\ Idle
  /\ path = <<>> /\ other = <<>> /\ escaped = <<>>

\* the callback on one Mountable; an error ends the call
MountsVisit(pos) ==
  /\ call = "genMountsDevicesFromPt" /\ ret = <<>>
  /\ pos \in Unvisited({"Filesystem"})
  /\ \E out \in genMounts([fsRootMntName |-> fsRootMntName, mounts |-> mounts,
                            devices |-> devices],
                           EntityAt(pt, pos), PathTo(pt, pos)) :
       /\ fsRootMntName' = out.fsRootMntName
       /\ mounts' = out.mounts
       /\ devices' = out.devices
       /\ ret' = IF out.err # <<>> THEN <<Failed(out.err[1])>> ELSE <<>>
  /\ chain' = <<[upto |-> pos, got |-> getDevices(PathTo(pt, pos), Filename, FALSE)]>>
  /\ visited' = Append(visited, pos)
  /\ UNCHANGED <<pt, call, stages, removeKeyStages, path, other, escaped>>

MountsReturn ==
  /\ call = "genMountsDevicesFromPt" /\ ret = <<>>
  /\ Unvisited({"Filesystem"}) = {}
  /\ \E sorted \in SortMounts(mounts) :
       /\ mounts' = sorted
       /\ ret' = <<RootCheck([fsRootMntName |-> fsRootMntName, mounts |-> mounts,
                              devices |-> devices], sorted)>>
  /\ UNCHANGED <<pt, call, visited, stages, removeKeyStages, devices, fsRootMntName,
                 chain, path, other, escaped>>

NextMounts ==
  \/ \E pos \in Unvisited({"Filesystem"}) : MountsVisit(pos)
  \/ MountsReturn

SpecMounts == InitMounts /\ [][NextMounts]_vars

\* ---- pathEscape ----
Alphabet == {"/", "\\", "-", "a"}
Paths == UNION {[1..n -> Alphabet] : n \in 0..MaxPathLen}

InitEscape ==
  /\ path \in Paths
  /\ other \in Paths
  /\ escaped = <<>>
  /\ pt = PartitionTable(<<>>)
  /\ call = "pathEscape"
  /\ Idle

CallPathEscape ==
  /\ call = "pathEscape" /\ escaped = <<>>
  /\ escaped' = <<pathEscape(path), pathEscape(other)>>
  /\ UNCHANGED <<pt, call, visited, stages, removeKeyStages, devices, mounts,
                 fsRootMntName, chain, ret, path, other>>

NextEscape == CallPathEscape

SpecEscape == InitEscape /\ [][NextEscape]_vars

(***************************************************************************)
(* The claims.                                                             *)
(***************************************************************************)
Returned == ret # <<>>
Result == ret[1]
Last(seq) == seq[Len(seq)]
IndicesOfType(stgs, type) == {i \in DOMAIN stgs : stgs[i].Type = type}
RemovesPassphrase(e) == ~e.Clevis.nil /\ e.Clevis.RemovePassphrase

\* C1: in the stages GenDeviceFinishStages returns, every remove-key stage (one
\* for each LUKS container whose Clevis asks to remove the passphrase) comes
\* after every lvm2.metadata stage (one for each volume group), wherever the
\* containers and the groups sit and in whatever order they were visited.
C1_RemoveKeyAfterMetadata ==
  (call = "GenDeviceFinishStages" /\ Returned) =>
    LET removes == IndicesOfType(Result, "org.osbuild.luks2.remove-key")
        renames == IndicesOfType(Result, "org.osbuild.lvm2.metadata")
    IN  /\ \A i \in removes, j \in renames : j < i
        /\ Cardinality(removes) =
             Cardinality({pos \in Range(OfKinds(pt, {"LUKSContainer"})) :
                            RemovesPassphrase(EntityAt(pt, pos))})
        /\ Cardinality(renames) = Len(OfKinds(pt, {"LVMVolumeGroup"}))
        /\ removes \cup renames = DOMAIN Result

\* a container that removes its passphrase was visited before a volume group
C1_Witness ==
  /\ call = "GenDeviceFinishStages" /\ Returned
  /\ \E i, j \in DOMAIN visited :
       /\ i < j
       /\ EntityAt(pt, visited[i]).kind = "LUKSContainer"
       /\ RemovesPassphrase(EntityAt(pt, visited[i]))
       /\ EntityAt(pt, visited[j]).kind = "LVMVolumeGroup"

\* the path of a mountpoint a is a proper ancestor directory of that of d
IsPrefix(a, d) == Len(a) <= Len(d) /\ SubSeq(d, 1, Len(a)) = a
IsAncestor(a, d) ==
  /\ a # d
  /\ \/ a = <<"/">> /\ IsPrefix(a, d)
     \/ IsPrefix(a, d) /\ Len(d) > Len(a) /\ d[Len(a) + 1] = "/"

Succeeds == call = "genMountsDevicesFromPt" /\ Returned /\ Result.err = <<>>
Fails == call = "genMountsDevicesFromPt" /\ Returned /\ Result.err # <<>>

\* C2: when genMountsDevicesFromPt succeeds, a mount whose target is an
\* ancestor directory of another mount's target comes before it in the
\* returned mounts, whatever the order the leaves were visited in.
C2_AncestorsMountFirst ==
  Succeeds =>
    \A i, j \in DOMAIN Result.mounts[1] :
      IsAncestor(Result.mounts[1][i].Target, Result.mounts[1][j].Target) => i < j

\* a descendant was visited before its ancestor, and the call succeeded
C2_Witness ==
  /\ Succeeds
  /\ \E i, j \in DOMAIN visited :
       /\ i < j
       /\ IsAncestor(EntityAt(pt, visited[j]).Mountpoint, EntityAt(pt, visited[i]).Mountpoint)
       /\ EntityAt(pt, visited[j]).Mountpoint # <<"/">>

\* the device chains of the leaves, as genMounts gets them
Leaves == ForEachMountable(pt)
Chains == [i \in DOMAIN Leaves |-> getDevices(PathTo(pt, Leaves[i]), Filename, FALSE).devs]
\* the names that two of the chains give to different descriptors, and those
\* that two of them give to the same descriptor
CollidingIn(chains) ==
  UNION {{n \in DOMAIN chains[i] \cap DOMAIN chains[j] : chains[i][n] # chains[j][n]} :
           i, j \in DOMAIN chains}
SharedIn(chains) ==
  UNION {IF i = j THEN {} ELSE DOMAIN chains[i] \cap DOMAIN chains[j] : i, j \in DOMAIN chains}
    \ CollidingIn(chains)
CollidingNames == CollidingIn(Chains)
KeepsShared(chains, devs) ==
  \A n \in SharedIn(chains) : \A i \in DOMAIN chains :
    n \in DOMAIN chains[i] => n \in DOMAIN devs /\ devs[n] = chains[i][n]
SupportedFSTypes == {"xfs", "vfat", "ext4", "btrfs"}
AllSupported == \A i \in DOMAIN Leaves : EntityAt(pt, Leaves[i]).Type \in SupportedFSTypes
NothingReturned(res) == res.root = <<>> /\ res.mounts = <<>> /\ res.devices = <<>>
IsCollision(res) ==
  /\ res.err # <<>>
  /\ res.err[1].msg = "the device name has been generated for two different devices"

\* C3 as claimed: when the chains of two leaves give one name to two different
\* descriptors, the call returns the collision error and nothing else; a name
\* given twice to the same descriptor is kept once and raises no error.
C3_Original ==
  (call = "genMountsDevicesFromPt" /\ Returned) =>
    /\ CollidingNames # {} => IsCollision(Result) /\ NothingReturned(Result)
    /\ IsCollision(Result) => Result.err[1].device \in CollidingNames
    /\ Result.err = <<>> => KeepsShared(Chains, Result.devices[1])

\* C3 as amended: the call then returns an error and nothing else, and the
\* error is the collision error when every leaf has a supported filesystem
\* type (otherwise it may be the unknown-type error of a leaf visited before
\* the collision showed); the rest as claimed.
C3_CollisionFails ==
  (call = "genMountsDevicesFromPt" /\ Returned) =>
    /\ CollidingNames # {} =>
         /\ Result.err # <<>> /\ NothingReturned(Result)
         /\ AllSupported => IsCollision(Result)
    /\ IsCollision(Result) => Result.err[1].device \in CollidingNames
    /\ Result.err = <<>> => KeepsShared(Chains, Result.devices[1])

\* the call failed on a collision after it had merged a chain
C3_Witness ==
  /\ Fails /\ IsCollision(Result) /\ NothingReturned(Result)
  /\ Len(visited) >= 2
  /\ DOMAIN devices # {}

\* C4: a visited leaf whose filesystem type is none of xfs, vfat, ext4, btrfs
\* makes the call fail with the error that carries that type and return no
\* mounts, no devices and no root name, also after other leaves went well.
C4_UnknownFsTypeFails ==
  call = "genMountsDevicesFromPt" =>
    \A i \in DOMAIN visited :
      EntityAt(pt, visited[i]).Type \notin SupportedFSTypes =>
        /\ Returned
        /\ Result = Failed(UnknownFsType(EntityAt(pt, visited[i]).Type))
        /\ NothingReturned(Result)

\* a leaf of an unknown type was visited after two that went well
C4_Witness ==
  /\ Fails /\ Result.err[1].msg = "unknown fs type" /\ Result.err[1].fstype = "zfs"
  /\ Len(visited) = 3 /\ Len(mounts) = 2

HasRoot == \E i \in DOMAIN Leaves : EntityAt(pt, Leaves[i]).Mountpoint = <<"/">>
IsNoRoot(res) ==
  res.err # <<>> /\ res.err[1].msg = "no mount found for the filesystem root"
RootProperties(res) ==
  /\ res.root # <<>>
  /\ \E i \in DOMAIN res.mounts[1] : res.mounts[1][i].Target = <<"/">>
  /\ \A i \in DOMAIN res.mounts[1] :
       res.mounts[1][i].Target = <<"/">> => res.mounts[1][i].Source = res.root
  /\ res.root \in DOMAIN res.devices[1]

\* C5 as claimed: without a leaf mounted at / the call fails with the
\* missing-root error and returns nothing else; when it succeeds the root name
\* is not empty, is the source of the mount at / and is a key of the devices.
C5_Original ==
  (call = "genMountsDevicesFromPt" /\ Returned) =>
    /\ ~HasRoot => IsNoRoot(Result) /\ NothingReturned(Result)
    /\ Result.err = <<>> => RootProperties(Result)

\* C5 as amended: without a leaf mounted at / the call fails and returns
\* nothing else, with the missing-root error when every leaf has a supported
\* filesystem type and no device names collide (otherwise with the error of
\* the traversal); the rest as claimed.
C5_RootMount ==
  (call = "genMountsDevicesFromPt" /\ Returned) =>
    /\ ~HasRoot =>
         /\ Result.err # <<>> /\ NothingReturned(Result)
         /\ (AllSupported /\ CollidingNames = {}) => IsNoRoot(Result)
    /\ IsNoRoot(Result) => ~HasRoot
    /\ Result.err = <<>> => RootProperties(Result)

\* every leaf was visited and none is mounted at /
C5_Witness ==
  /\ Fails /\ IsNoRoot(Result) /\ ~HasRoot
  /\ Len(visited) >= 2 /\ Len(mounts) = Len(visited)

\* strings.Split(s, sep) for a one-character sep
RECURSIVE Split(_, _)
Split(s, sep) ==
  IF \A i \in DOMAIN s : s[i] # sep THEN <<s>>
  ELSE LET k == CHOOSE i \in DOMAIN s : s[i] = sep /\ \A j \in 1..(i - 1) : s[j] # sep
       IN  <<SubSeq(s, 1, k - 1)>> \o Split(SubSeq(s, k + 1, Len(s)), sep)

\* the character whose escape is \xNN
Unhex(digits) == CHOOSE c \in Alphabet : FormatInt(Byte(c), 16) = digits

\* undoes the \xNN escapes of a name, left to right
RECURSIVE Unescape(_)
Unescape(s) ==
  IF s = <<>> THEN <<>>
  ELSE IF Len(s) >= 4 /\ s[1] = "\\" /\ s[2] = "x"
            /\ \E c \in Alphabet : FormatInt(Byte(c), 16) = SubSeq(s, 3, 4)
       THEN <<Unhex(SubSeq(s, 3, 4))>> \o Unescape(SubSeq(s, 5, Len(s)))
       ELSE <<Head(s)>> \o Unescape(Tail(s))

Segments(p) == Split(Trim(p, "/"), "/")
SegmentsOfName(name) ==
  LET parts == Split(name, "-") IN [i \in DOMAIN parts |-> Unescape(parts[i])]

\* C6: pathEscape maps the empty path and / to -; for every other path,
\* splitting the name at the dashes and undoing the escapes gives back the
\* segments of the path (its leading and trailing slashes trimmed), so two
\* paths of different segments never get the same name.
C6_EscapeKeepsSegments ==
  escaped # <<>> =>
    /\ path \in {<<>>, <<"/">>} => escaped[1] = <<"-">>
    /\ path \notin {<<>>, <<"/">>} => SegmentsOfName(escaped[1]) = Segments(path)
    /\ Segments(path) # Segments(other) => escaped[1] # escaped[2]

\* a path with a dash, a backslash and a separator was escaped
C6_Witness ==
  /\ escaped # <<>>
  /\ path = <<"-", "/", "\\">>
  /\ other = <<"/", "-", "\\">>
  /\ escaped[1] = <<"\\", "x", "2", "d", "-", "\\", "x", "5", "c">>

\* the kinds of entity that getDevices gives a device
DeviceKinds == {"Partition", "LUKSContainer", "LVMLogicalVolume"}
DeviceTypeOf(e) ==
  CASE e.kind = "Partition" -> "org.osbuild.loopback"
    [] e.kind = "LUKSContainer" -> "org.osbuild.luks2"
    [] e.kind = "LVMLogicalVolume" -> "org.osbuild.lvm2.lv"
DeviceNodes(elems) == SelectSeq(elems, LAMBDA e : e.kind \in DeviceKinds)
Reverse(seq) == [i \in DOMAIN seq |-> seq[Len(seq) + 1 - i]]

\* the types met on following the parents from name for n steps, and where that ends
RECURSIVE ParentTypes(_, _, _)
ParentTypes(devs, name, n) ==
  IF n = 0 THEN <<>>
  ELSE IF name \notin DOMAIN devs THEN <<"no such device">>
  ELSE <<devs[name].Type>> \o ParentTypes(devs, devs[name].Parent, n - 1)
RECURSIVE ParentAfter(_, _, _)
ParentAfter(devs, name, n) ==
  IF n = 0 \/ name \notin DOMAIN devs THEN name
  ELSE ParentAfter(devs, devs[name].Parent, n - 1)

\* C7 as claimed: the map getDevices returns for a path has one descriptor for
\* each Partition, LUKS container and logical volume of the path; the last
\* name is the key of the descriptor of the last of them; following the
\* parents from it meets the descriptors in reverse path order and ends at the
\* loopback device, which has no parent; no descriptor is its own parent.
C7_Original ==
  chain # <<>> =>
    LET devs == chain[1].got.devs
        last == chain[1].got.last
        nodes == DeviceNodes(PathTo(pt, chain[1].upto))
    IN  /\ Cardinality(DOMAIN devs) = Len(nodes)
        /\ last \in DOMAIN devs
        /\ devs[last].Type = DeviceTypeOf(Last(nodes))
        /\ ParentTypes(devs, last, Len(nodes)) =
             Reverse([i \in DOMAIN nodes |-> DeviceTypeOf(nodes[i])])
        /\ ParentAfter(devs, last, Len(nodes)) = NoParent
        /\ \A n \in DOMAIN devs : devs[n].Parent # n

\* the stages the last visit of a stage callback emitted
LastEmitted ==
  IF visited = <<>> \/ Returned THEN {}
  ELSE LET e == EntityAt(pt, Last(visited))
       IN  CASE call = "GenDeviceCreationStages" /\ e.kind = "LVMVolumeGroup" ->
                  {Last(stages)}
             [] call = "GenDeviceCreationStages" /\ e.kind = "LUKSContainer" ->
                  IF e.Clevis.nil THEN {Last(stages)}
                  ELSE {Last(stages), stages[Len(stages) - 1]}
             [] call = "GenDeviceFinishStages" /\ e.kind = "LVMVolumeGroup" ->
                  {Last(stages)}
             [] call = "GenDeviceFinishStages" /\ e.kind = "LUKSContainer" ->
                  IF RemovesPassphrase(e) THEN {Last(removeKeyStages)} ELSE {}
             [] OTHER -> {}

\* C10 as claimed: the devices of every emitted stage are the chain of the
\* path without the entity, its last device renamed to "device" and nothing
\* lost: as many descriptors as the chain has, the last device under
\* "device", every other descriptor under its own name with its parent
\* unchanged and a key of the map (or none), also when an entity of the chain
\* is itself named "device".
C10_Original ==
  \A stage \in LastEmitted :
    LET got == chain[1].got
    IN  /\ Cardinality(DOMAIN stage.Devices) = Cardinality(DOMAIN got.devs)
        /\ DeviceKey \in DOMAIN stage.Devices
        /\ stage.Devices[DeviceKey] = got.devs[got.last]
        /\ \A n \in DOMAIN got.devs \ {got.last} :
             /\ n \in DOMAIN stage.Devices
             /\ stage.Devices[n] = got.devs[n]
             /\ stage.Devices[n].Parent \in DOMAIN stage.Devices \cup {NoParent}

\* how many stages the creation callback emits for an entity
CreationStagesOf(e) ==
  IF e.kind = "LUKSContainer" /\ ~e.Clevis.nil THEN 2 ELSE 1
RECURSIVE StagesBefore(_)
StagesBefore(i) ==
  IF i = 1 THEN 0 ELSE StagesBefore(i - 1) + CreationStagesOf(EntityAt(pt, visited[i - 1]))

\* C8: in the stages of GenDeviceCreationStages every LUKS container has one
\* luks2.format stage at its place in the traversal, followed at once by a
\* clevis bind stage exactly if the container has a Clevis, with the same
\* devices; every volume group has one lvm2.create stage that lists its
\* logical volumes in order, the sizes in bytes.
C8_CreationStages ==
  call = "GenDeviceCreationStages" =>
    /\ Len(stages) = StagesBefore(Len(visited) + 1)
    /\ \A i \in DOMAIN visited :
         LET e == EntityAt(pt, visited[i])
             k == StagesBefore(i) + 1
         IN  IF e.kind = "LUKSContainer"
             THEN /\ stages[k].Type = "org.osbuild.luks2.format"
                  /\ stages[k].Options.UUID = e.UUID
                  /\ DeviceKey \in DOMAIN stages[k].Devices
                  /\ ~e.Clevis.nil <=>
                       (k < Len(stages) /\ stages[k + 1].Type = "org.osbuild.clevis.luks-bind")
                  /\ ~e.Clevis.nil => stages[k + 1].Devices = stages[k].Devices
             ELSE /\ stages[k].Type = "org.osbuild.lvm2.create"
                  /\ DeviceKey \in DOMAIN stages[k].Devices
                  /\ Len(stages[k].Options.Volumes) = Len(e.LogicalVolumes)
                  /\ \A v \in DOMAIN e.LogicalVolumes :
                       /\ stages[k].Options.Volumes[v].Name = e.LogicalVolumes[v].Name
                       /\ stages[k].Options.Volumes[v].Size =
                            FormatInt(e.LogicalVolumes[v].Size, 10) \o <<"B">>
    /\ Cardinality(IndicesOfType(stages, "org.osbuild.luks2.format")) =
         Cardinality({i \in DOMAIN visited : EntityAt(pt, visited[i]).kind = "LUKSContainer"})
    /\ Cardinality(IndicesOfType(stages, "org.osbuild.lvm2.create")) =
         Cardinality({i \in DOMAIN visited : EntityAt(pt, visited[i]).kind = "LVMVolumeGroup"})

\* a group of two volumes, visited first, and a container with a Clevis gave three stages
C8_Witness ==
  /\ call = "GenDeviceCreationStages" /\ Returned
  /\ Len(visited) = 2
  /\ EntityAt(pt, visited[1]).kind = "LVMVolumeGroup"
  /\ Len(EntityAt(pt, visited[1]).LogicalVolumes) = 2
  /\ EntityAt(pt, visited[2]).kind = "LUKSContainer"
  /\ ~EntityAt(pt, visited[2]).Clevis.nil
  /\ Len(Result) = 3
  /\ Result[3].Type = "org.osbuild.clevis.luks-bind"

\* C9: the result of genMountsDevicesFromPt does not depend on the order the
\* leaves are visited in: it fails exactly if the call that visits them in the
\* order of the tree fails, and otherwise returns the same root name, the
\* same devices and the same mounts in the same order.
C9_OrderIndependent ==
  (call = "genMountsDevicesFromPt" /\ Returned) =>
    \A inOrder \in genMountsDevicesFromPt(pt, ForEachMountable(pt)) :
      /\ (inOrder.err = <<>>) <=> (Result.err = <<>>)
      /\ Result.err = <<>> =>
           /\ Result.root = inOrder.root
           /\ Result.devices = inOrder.devices
           /\ Result.mounts = inOrder.mounts

\* a successful call that visited three leaves in the reverse of the tree's order
C9_Witness ==
  /\ Succeeds
  /\ Len(visited) = 3
  /\ visited = Reverse(ForEachMountable(pt))
  /\ [i \in DOMAIN visited |-> EntityAt(pt, visited[i]).Mountpoint] #
       [i \in DOMAIN visited |-> Result.mounts[1][i].Target]

====
